---------------------------- MODULE Spec2Model ----------------------------
(***************************************************************************)
(* The source-scanning and ingestion pipeline of the news aggregator:      *)
(* SchedulerService (start / stop / scanAllSources / scanSingleSource),    *)
(* the articles table of DatabaseService and the extraction loops of       *)
(* ScrapingService.                                                        *)
(*                                                                         *)
(* The repository holds two versions of SchedulerService:                  *)
(*   "seq"  src/src/server/services/SchedulerService.ts  (for ... await)   *)
(*   "par"  src/news_aggregator_app.ts       (map + Promise.allSettled)    *)
(* The variable `variant` says which one a behaviour runs.                 *)
(***************************************************************************)
EXTENDS Integers, Sequences, FiniteSets, TLC

VARIABLES
    variant,    \* which SchedulerService is running: "seq" or "par"
    now,        \* the wall clock (Date.now()), in milliseconds
    ticked,     \* the cron expression has fired at the present instant
    isRunning,  \* SchedulerService.isRunning
    tasks,      \* SchedulerService.tasks: the keys it maps to a cron task
    armed,      \* number of 'main-scan' cron tasks started and not stopped
    warmups,    \* number of pending setTimeout(() => scanAllSources(), 5000)
    api,        \* how the last call of start() / stop() ended
    sources,    \* the sources table: id -> row
    broken,     \* environment: the source whose extraction always throws (0: none)
    rows,       \* the articles table, in insertion order (id = position)
    passes,     \* the calls of scanAllSources() under way: slot -> pass
    begun,      \* number of calls of scanAllSources() so far
    hasFailed,  \* an extraction has thrown (the log holds its error)
    scrape,     \* the call of scrapeSource() under study, if any
    scraped,    \* what that call returned: positions of elements of the page
    phase,      \* the server process: "up", or "exited" after shutdown()
    browser,    \* ScrapingService.browser: 0 (null) or a browser instance
    launches,   \* number of browser instances puppeteer.launch() has created
    openBrowsers, \* the browser instances created and not closed
    callers,    \* the calls of scrapeWebsite() etc. under way: caller -> call
    hasApiKey,  \* SummarizationService.hasApiKey (and this.openai is set)
    handed,     \* number of articles handed to summarizeArticles()
    toSummarize, \* the articles its loop has still to go through
    summarized, \* summarizeArticles(): the local `summarized`
    batch,      \* summarizeArticles() of the app: the calls of the batch under way
    scanLocals, \* the locals of each call of scanSingleSource() under way
    scanResults, \* the scan_results table, in insertion order
    content,    \* the article body handed to a local algorithm
    local,      \* what the local algorithm returned for it
    registered, \* the sources table as the routes write it, in id order
    response,   \* the status of the last response of the sources routes
    deleted,    \* the ids whose row DELETE /:id has taken out of the sources table
    tested      \* data.articlesFound of the last answer of POST /:id/test

schedulerVars == <<variant, now, ticked, isRunning, tasks, armed, warmups, api,
                   sources, broken, rows, passes, begun, hasFailed>>
scraperVars == <<scrape, scraped>>
browserVars == <<phase, browser, launches, openBrowsers, callers>>
annotatorVars == <<hasApiKey, handed, toSummarize, summarized, batch>>
scanVars == <<scanLocals, scanResults>>
localVars == <<content, local>>
routeVars == <<registered, response, deleted, tested>>

vars == <<schedulerVars, scraperVars, browserVars, annotatorVars, scanVars,
          localVars, routeVars>>

\* No call of scanSingleSource() is made or returns.
ScanIdle == UNCHANGED scanVars
LocalIdle == UNCHANGED localVars
RoutesIdle == UNCHANGED routeVars

----------------------------------------------------------------------------
(* Bounds of the model *)

NumSources == 2     \* rows of the sources table
NumUrls == 2        \* distinct article URLs the scraped pages can hold
MaxPasses == 2      \* calls of scanAllSources() that may overlap
MaxBegun == 2       \* calls of scanAllSources() a behaviour may make
MaxSteps == 3       \* clock steps a behaviour may take
MaxWarmups == 2     \* pending warm-up timeouts
MaxElements == 3    \* candidate elements of a scraped page
MaxCap == 2         \* largest maxResults of a scraped source
NumCallers == 2     \* concurrent callers of the ScrapingService
MaxArticles == 3    \* articles handed to one summarizeArticles()
MaxLaunches == 3    \* browser launches a behaviour may start
MaxSentences == 5
MaxTokens == 5
MaxRegistered == 2
MaxBatched == 4

----------------------------------------------------------------------------
(* Program constants *)

MinScanFrequency == 5       \* Math.max(5, scanFrequency), minutes
CronPeriodMinutes == 15     \* cron.schedule('*/15 * * * *', ...)
WorkerLimit == 3            \* MAX_CONCURRENT_SCRAPERS=3
MinTweetLength == 10        \* `content.length < 10` skips a tweet
MinPostLength == 20         \* `content.length < 20` skips a post
MinContentLength == 100     \* `content.length > 100` keeps an article
MinSentenceLength == 10     \* `s.length > 10` keeps a sentence
VerbatimLimit == 3          \* `sentences.length <= 3` returns the content
TopSentences == 4           \* `.slice(0, 4)`
MinWords == 8               \* `words >= 8 && words <= 30`
MaxWords == 30
FirstBonus == 3             \* `if (position === 0) score += 3`
HttpPenalty == 2            \* `score -= 2`
DefaultScanFrequency == 30  \* `scanFrequency = 30` in POST /sources
DefaultMaxResults == 3      \* `maxResults = 3` in POST /sources
MinResultsCap == 1          \* Math.min(10, Math.max(1, maxResults))
MaxResultsCap == 10
SentimentThreshold == 2     \* `diff > 2 ? 'positive' : diff < -2 ? 'negative'`

MsPerMinute == 60 * 1000
\* The clock advances in steps of the smallest cadence a source can have.
TimeStep == MinScanFrequency * MsPerMinute

\* A lastScanned that was never written (the column is NULL).
Null == -1
SourceIds == 1..NumSources
Urls == 1..NumUrls
Slots == 1..MaxPasses

----------------------------------------------------------------------------
(* SchedulerService.start / stop *)

\* The tasks start() creates: 'main-scan' and, in the parallel scheduler,
\* the daily 'cleanup'.
ScheduledTasks ==
    IF variant = "par" THEN {"main-scan", "cleanup"} ELSE {"main-scan"}

\* Mutant of Start: the guard `if (this.isRunning) return;` is missing.
StartUnguarded ==
    /\ warmups < MaxWarmups
    /\ tasks' = tasks \cup ScheduledTasks
    /\ armed' = armed + 1
    /\ isRunning' = TRUE
    /\ warmups' = warmups + 1
    /\ api' = "started"
    /\ UNCHANGED <<variant, now, ticked, sources, broken, rows, passes, begun,
                   hasFailed>>

\* start(): `if (this.isRunning) return;` then the cron task is created,
\* put under 'main-scan', every task of the map is started, isRunning is
\* set and the warm-up pass is scheduled with setTimeout.  Nothing awaits a
\* scan: the passes are left alone.
Start ==
    /\ IF isRunning
       THEN /\ api' = "start-noop"
            /\ UNCHANGED <<tasks, armed, isRunning, warmups>>
       ELSE /\ warmups < MaxWarmups
            /\ tasks' = tasks \cup ScheduledTasks
            /\ armed' = armed + 1
            /\ isRunning' = TRUE
            /\ warmups' = warmups + 1
            /\ api' = "started"
    /\ UNCHANGED <<variant, now, ticked, sources, broken, rows, passes, begun,
                   hasFailed>>

\* Mutant of Stop: no guard, and the main task is fetched from the map and
\* stopped (`this.tasks.get('main-scan').stop()`), which throws when the map
\* is empty.
StopDereferences ==
    /\ IF "main-scan" \in tasks
       THEN /\ armed' = armed - 1
            /\ tasks' = {}
            /\ isRunning' = FALSE
            /\ api' = "stopped"
       ELSE /\ api' = "rejected"
            /\ UNCHANGED <<tasks, armed, isRunning>>
    /\ UNCHANGED <<variant, now, ticked, warmups, sources, broken, rows, passes,
                   begun, hasFailed>>

\* stop(): `if (!this.isRunning) return;` then every task of the map is
\* stopped, the map is cleared and isRunning is reset.  The timeout of the
\* warm-up pass is not held anywhere and is not cleared.
Stop ==
    /\ IF ~isRunning
       THEN /\ api' = "stop-noop"
            /\ UNCHANGED <<tasks, armed, isRunning>>
       ELSE /\ armed' = armed - Cardinality(tasks \cap {"main-scan"})
            /\ tasks' = {}
            /\ isRunning' = FALSE
            /\ api' = "stopped"
    /\ UNCHANGED <<variant, now, ticked, warmups, sources, broken, rows, passes,
                   begun, hasFailed>>

----------------------------------------------------------------------------
(* DatabaseService *)

\* getSources(activeOnly): SELECT * FROM sources [WHERE isActive = 1], the
\* rows in id order, each with its id.
RECURSIVE RowsFrom(_, _)
RowsFrom(id, activeOnly) ==
    IF id > NumSources THEN <<>>
    ELSE (IF id \notin deleted /\ (activeOnly => sources[id].isActive)
          THEN <<[id |-> id,
                  isActive |-> sources[id].isActive,
                  lastScanned |-> sources[id].lastScanned,
                  scanFrequency |-> sources[id].scanFrequency,
                  maxResults |-> sources[id].maxResults]>>
          ELSE <<>>) \o RowsFrom(id + 1, activeOnly)

GetSources(activeOnly) == RowsFrom(1, activeOnly)

\* updateSource(id, {lastScanned}): UPDATE sources SET lastScanned = ? WHERE id = ?
\* With no row of that id the statement changes nothing.
UpdateSource(id, t) ==
    IF id \in deleted THEN sources
    ELSE [sources EXCEPT ![id].lastScanned = t]

\* Mutant of InsertOutcomes: the url column is not declared UNIQUE.
InsertOutcomesNoUnique(url) == {[kind |-> "ok", lastID |-> Len(rows) + 1]}

\* The articles table declares `url TEXT NOT NULL UNIQUE`.
UrlStored(url) == \E k \in 1..Len(rows) : rows[k].url = url

\* INSERT INTO articles: the outcome of the statement.  A row with the url
\* already there is a constraint violation, which sqlite reports with the
\* primary or the extended result code; otherwise the row is appended and
\* its id is the result.
UniqueErrorCodes == {"SQLITE_CONSTRAINT", "SQLITE_CONSTRAINT_UNIQUE"}

InsertOutcomes(url) ==
    IF UrlStored(url)
    THEN {[kind |-> "error", code |-> c,
           message |-> "UNIQUE constraint failed: articles.url"] :
              c \in UniqueErrorCodes}
    ELSE {[kind |-> "ok", lastID |-> Len(rows) + 1]}

\* The statement can fail for another reason than the constraint (the
\* database is locked, the disk is full): no row is written.
StorageFailures ==
    {[kind |-> "error", code |-> "SQLITE_BUSY",
      message |-> "SQLITE_BUSY: database is locked"]}

InsertArticle(sourceId, url, out) ==
    IF out.kind = "ok"
    THEN Append(rows, [url |-> url, sourceId |-> sourceId])
    ELSE rows

\* addArticle(): the id of the new row; -1 when the error's code is
\* SQLITE_CONSTRAINT_UNIQUE; any other error is thrown again.
AddArticleResult(out) ==
    IF out.kind = "ok" THEN [kind |-> "value", value |-> out.lastID]
    ELSE IF out.code = "SQLITE_CONSTRAINT_UNIQUE"
         THEN [kind |-> "value", value |-> -1]
         ELSE [kind |-> "throw", message |-> out.message]

----------------------------------------------------------------------------
(* SchedulerService.scanSingleSource / scanAllSources *)

\* The check at the head of scanSingleSource: a source with a lastScanned
\* is skipped when `new Date() < nextScan`.
NextScan(source) == source.lastScanned + source.scanFrequency * 60 * 1000

\* Mutant of IsDue: `new Date() <= nextScan` skips the source.
IsDueLate(source, t) ==
    IF source.lastScanned # Null
    THEN ~(t <= NextScan(source))
    ELSE TRUE

IsDue(source, t) ==
    IF source.lastScanned # Null
    THEN ~(t < NextScan(source))
    ELSE TRUE

\* A pass is a call of scanAllSources() under way: `todo` holds the sources
\* of its list for which scanSingleSource was not called yet, scans[id] the
\* call of scanSingleSource for source id that has not returned yet:
\*   "scraping"  awaiting scrapeSource(source)
\*   "saving"    in the loop over the fragments (frags: those still to save)
\*   "idle"      no call for this source is under way
\*   "skipped"   the call returned 0 at the check: the source was not due
IdleScan == [st |-> "idle", maxResults |-> 0, frags |-> <<>>,
             processed |-> 0, errors |-> 0]

FreePass == [status |-> "free", todo |-> <<>>, scans |-> [s \in SourceIds |-> IdleScan]]

\* scanSingleSource(source) up to its first await.
EnterScan(source) == [IdleScan EXCEPT !.st = "scraping", !.maxResults = source.maxResults]

\* "seq": `for (const source of sources) await this.scanSingleSource(source)`
\* calls scanSingleSource for the next sources until one of them is due,
\* and awaits its extraction; the sources not due return 0 at once.
RECURSIVE StartNext(_, _, _)
StartNext(todo, scans, t) ==
    IF todo = <<>> THEN [todo |-> <<>>, scans |-> scans]
    ELSE IF IsDue(Head(todo), t)
         THEN [todo |-> Tail(todo),
               scans |-> [scans EXCEPT ![Head(todo).id] = EnterScan(Head(todo))]]
         ELSE StartNext(Tail(todo),
                        [scans EXCEPT ![Head(todo).id].st = "skipped"], t)

\* "par": `sources.map(source => this.scanSingleSource(source))` calls
\* scanSingleSource for every source of the list at once.
RECURSIVE StartAll(_, _, _)
StartAll(todo, scans, t) ==
    IF todo = <<>> THEN [todo |-> <<>>, scans |-> scans]
    ELSE StartAll(Tail(todo),
                  IF IsDue(Head(todo), t)
                  THEN [scans EXCEPT ![Head(todo).id] = EnterScan(Head(todo))]
                  ELSE [scans EXCEPT ![Head(todo).id].st = "skipped"],
                  t)

\* The pass once `todo` and `scans` are as given: it has returned when no
\* source is left and no scan is under way.
PassOf(ts) ==
    IF ts.todo = <<>> /\ \A s \in SourceIds : ts.scans[s].st \in {"idle", "skipped"}
    THEN FreePass
    ELSE [status |-> "running", todo |-> ts.todo, scans |-> ts.scans]

\* scanAllSources() from `const sources = await getSources(true)` on.
BeginPass(t) ==
    LET snap == GetSources(TRUE)
    IN PassOf(IF variant = "seq"
              THEN StartNext(snap, FreePass.scans, t)
              ELSE StartAll(snap, FreePass.scans, t))

\* scanSingleSource(source s) of pass p has returned.
ScanReturned(p, s, t) ==
    LET scans == [passes[p].scans EXCEPT ![s] = IdleScan]
    IN PassOf(IF variant = "seq"
              THEN StartNext(passes[p].todo, scans, t)
              ELSE [todo |-> passes[p].todo, scans |-> scans])

\* The slot a new call of scanAllSources() takes: the first that is free.
FreeSlots == {p \in Slots : passes[p].status = "free"}
FirstSlot == CHOOSE p \in FreeSlots : \A q \in FreeSlots : p <= q

ScanAllSources ==
    /\ FreeSlots # {}
    /\ begun < MaxBegun
    /\ begun' = begun + 1
    /\ passes' = [passes EXCEPT ![FirstSlot] = BeginPass(now)]

\* The cron task fires at each instant its expression names.
CronFire ==
    /\ armed > 0
    /\ ~ticked
    /\ now % (CronPeriodMinutes * MsPerMinute) = 0
    /\ ticked' = TRUE
    /\ ScanAllSources
    /\ UNCHANGED <<variant, now, isRunning, tasks, armed, warmups, api,
                   sources, broken, rows, hasFailed>>

\* The timeout set by start() fires.
WarmupFire ==
    /\ warmups > 0
    /\ warmups' = warmups - 1
    /\ ScanAllSources
    /\ UNCHANGED <<variant, now, ticked, isRunning, tasks, armed, api,
                   sources, broken, rows, hasFailed>>

\* Time passes.  A pending warm-up timeout (5 seconds) fires before the
\* clock has moved by a whole step.
Advance ==
    /\ warmups = 0
    /\ now + TimeStep <= MaxSteps * TimeStep
    /\ now' = now + TimeStep
    /\ ticked' = FALSE
    /\ UNCHANGED <<variant, isRunning, tasks, armed, warmups, api,
                   sources, broken, rows, passes, begun, hasFailed>>

----------------------------------------------------------------------------
(* The scan of one source, step by step *)

\* What the pages of the sources can hold: lists of article URLs, in
\* document order, a URL possibly more than once.
RECURSIVE ListsUpTo(_)
ListsUpTo(n) ==
    IF n = 0 THEN {<<>>}
    ELSE LET shorter == ListsUpTo(n - 1)
         IN shorter \cup {Append(l, u) : l \in {x \in shorter : Len(x) = n - 1}, u \in Urls}

Pages == ListsUpTo(NumUrls)

\* scrapeSource(): `return articles.slice(0, source.maxResults)`.
Slice(list, n) == SubSeq(list, 1, IF Len(list) < n THEN Len(list) ELSE n)

\* `error.message.includes('UNIQUE constraint')`
IsUniqueMessage(message) == message = "UNIQUE constraint failed: articles.url"

Scanning(p, s, st) == passes[p].status = "running" /\ passes[p].scans[s].st = st

\* Mutant of ScrapeFail: no catch in scanSingleSource nor around its call,
\* so that the error ends scanAllSources().
ScrapeFailAborts(p, s) ==
    /\ Scanning(p, s, "scraping")
    /\ s = broken
    /\ hasFailed' = TRUE
    /\ passes' = [passes EXCEPT ![p] = FreePass]
    /\ UNCHANGED <<variant, now, ticked, isRunning, tasks, armed, warmups,
                   api, sources, broken, rows, begun>>

\* Mutant of ScrapeFail: lastScanned is written in a finally block, after a
\* failed extraction too.
ScrapeFailWrites(p, s) ==
    /\ Scanning(p, s, "scraping")
    /\ s = broken
    /\ hasFailed' = TRUE
    /\ sources' = UpdateSource(s, now)
    /\ passes' = [passes EXCEPT ![p] = ScanReturned(p, s, now)]
    /\ UNCHANGED <<variant, now, ticked, isRunning, tasks, armed, warmups,
                   api, broken, rows, begun>>

\* scrapeSource() throws: the catch of scanSingleSource logs the error and
\* the scan returns; lastScanned is not written.
ScrapeFail(p, s) ==
    /\ Scanning(p, s, "scraping")
    /\ s = broken
    /\ hasFailed' = TRUE
    /\ passes' = [passes EXCEPT ![p] = ScanReturned(p, s, now)]
    /\ UNCHANGED <<variant, now, ticked, isRunning, tasks, armed, warmups,
                   api, sources, broken, rows, begun>>

\* scrapeSource() returns the fragments of the page.  With no fragment,
\* "seq" returns 0 at once; "par" goes on to write lastScanned.
ScrapeOk(p, s, page) ==
    /\ Scanning(p, s, "scraping")
    /\ s # broken
    /\ LET articles == Slice(page, passes[p].scans[s].maxResults)
       IN IF Len(articles) = 0
          THEN /\ passes' = [passes EXCEPT ![p] = ScanReturned(p, s, now)]
               /\ sources' = IF variant = "seq" THEN sources
                             ELSE UpdateSource(s, now)
          ELSE /\ passes' = [passes EXCEPT ![p].scans[s].st = "saving",
                                           ![p].scans[s].frags = articles]
               /\ UNCHANGED sources
    /\ UNCHANGED <<variant, now, ticked, isRunning, tasks, armed, warmups,
                   api, broken, rows, begun, hasFailed>>

\* Mutant of AddArticle: no try/catch inside the loop, so that an error of
\* addArticle() reaches the catch of scanSingleSource and ends the scan.
AddArticleAborts(p, s, out) ==
    /\ Scanning(p, s, "saving")
    /\ passes[p].scans[s].frags # <<>>
    /\ LET scan == passes[p].scans[s]
           url == Head(scan.frags)
           res == AddArticleResult(out)
       IN /\ out \in InsertOutcomes(url) \cup StorageFailures
          /\ rows' = InsertArticle(s, url, out)
          /\ passes' = IF res.kind = "throw"
                        THEN [passes EXCEPT ![p] = ScanReturned(p, s, now)]
                        ELSE [passes EXCEPT ![p].scans[s] = [scan EXCEPT
                                !.frags = Tail(@),
                                !.processed = IF res.value > 0 THEN @ + 1 ELSE @]]
    /\ UNCHANGED <<variant, now, ticked, isRunning, tasks, armed, warmups,
                   api, sources, broken, begun, hasFailed>>

\* One turn of `for (const article of summarizedArticles)`: addArticle is
\* called for the next fragment; an id > 0 counts as processed, an error
\* whose message names the UNIQUE constraint is dropped, any other error
\* is logged ("seq") or pushed to errors ("par").
AddArticle(p, s, out) ==
    /\ Scanning(p, s, "saving")
    /\ passes[p].scans[s].frags # <<>>
    /\ LET scan == passes[p].scans[s]
           url == Head(scan.frags)
           res == AddArticleResult(out)
       IN /\ out \in InsertOutcomes(url) \cup StorageFailures
          /\ rows' = InsertArticle(s, url, out)
          /\ passes' = [passes EXCEPT ![p].scans[s] = [scan EXCEPT
                !.frags = Tail(@),
                !.processed = IF res.kind = "value" /\ res.value > 0
                              THEN @ + 1 ELSE @,
                !.errors = IF res.kind = "throw" /\ ~IsUniqueMessage(res.message)
                           THEN @ + 1 ELSE @]]
    /\ UNCHANGED <<variant, now, ticked, isRunning, tasks, armed, warmups,
                   api, sources, broken, begun, hasFailed>>

\* After the loop: updateSource(source.id, {lastScanned: new Date()}) and
\* the scan returns.
FinishScan(p, s) ==
    /\ Scanning(p, s, "saving")
    /\ passes[p].scans[s].frags = <<>>
    /\ sources' = UpdateSource(s, now)
    /\ passes' = [passes EXCEPT ![p] = ScanReturned(p, s, now)]
    /\ UNCHANGED <<variant, now, ticked, isRunning, tasks, armed, warmups,
                   api, broken, rows, begun, hasFailed>>

----------------------------------------------------------------------------
(* scanAllSources / scanSingleSource: the other collaborators throw *)

\* scanAllSources() whose `await this.databaseService.getSources(true)`
\* throws: the catch of scanAllSources logs the error and the call returns
\* with no source scanned.
ScanAllSourcesListFails ==
    /\ begun < MaxBegun
    /\ begun' = begun + 1
    /\ hasFailed' = TRUE
    /\ passes' = passes

CronFireListFails ==
    /\ armed > 0
    /\ ~ticked
    /\ now % (CronPeriodMinutes * MsPerMinute) = 0
    /\ ticked' = TRUE
    /\ ScanAllSourcesListFails
    /\ UNCHANGED <<variant, now, isRunning, tasks, armed, warmups, api,
                   sources, broken, rows>>

WarmupFireListFails ==
    /\ warmups > 0
    /\ warmups' = warmups - 1
    /\ ScanAllSourcesListFails
    /\ UNCHANGED <<variant, now, ticked, isRunning, tasks, armed, api,
                   sources, broken, rows>>

\* scrapeSource() has returned articles and summarizeArticles() throws: the
\* catch of scanSingleSource logs the error and the scan returns;
\* lastScanned is not written.
AnnotateFails(p, s) ==
    /\ Scanning(p, s, "scraping")
    /\ s # broken
    /\ hasFailed' = TRUE
    /\ passes' = [passes EXCEPT ![p] = ScanReturned(p, s, now)]
    /\ UNCHANGED <<variant, now, ticked, isRunning, tasks, armed, warmups,
                   api, sources, broken, rows, begun>>

\* After the loop updateSource() throws: the catch of scanSingleSource logs
\* the error and the scan returns; lastScanned is not written.
UpdateFails(p, s) ==
    /\ Scanning(p, s, "saving")
    /\ passes[p].scans[s].frags = <<>>
    /\ hasFailed' = TRUE
    /\ passes' = [passes EXCEPT ![p] = ScanReturned(p, s, now)]
    /\ UNCHANGED <<variant, now, ticked, isRunning, tasks, armed, warmups,
                   api, sources, broken, rows, begun>>

----------------------------------------------------------------------------
(* scanSingleSource: its locals and the scan_results table *)

\* `const startTime = Date.now()` and, in "par", `let articlesFound = 0`.
NoLocals == [startTime |-> Null, articlesFound |-> 0]

\* A call of scanSingleSource(source s) is made in the step, by pass p.
Entered(p, s) ==
    /\ passes'[p].status = "running"
    /\ passes'[p].scans[s].st = "scraping"
    /\ ~Scanning(p, s, "scraping")

\* Each call made in the step takes its startTime; the locals of a call
\* that has returned are gone.
TakeStartTimes(found) ==
    scanLocals' = [p \in Slots |-> [s \in SourceIds |->
        IF Entered(p, s) THEN [NoLocals EXCEPT !.startTime = now]
        ELSE IF passes'[p].status = "running"
                /\ passes'[p].scans[s].st \in {"scraping", "saving"}
             THEN [scanLocals[p][s] EXCEPT !.articlesFound = found[p][s]]
             ELSE NoLocals]]

FoundSoFar == [p \in Slots |-> [s \in SourceIds |-> scanLocals[p][s].articlesFound]]

\* recordScanResult(): INSERT INTO scan_results.  `errors` is the number
\* of messages joined in the column.
ScanResult(sourceId, found, processed, errors, duration) ==
    [sourceId |-> sourceId, articlesFound |-> found,
     articlesProcessed |-> processed, errors |-> errors,
     scanDuration |-> duration]

RecordScanResult(result) == Append(scanResults, result)

\* The finally block of scanSingleSource, which only "par" has.
Finally(p, s, found, processed, errors) ==
    scanResults' =
        IF variant = "par"
        THEN RecordScanResult(ScanResult(s, found, processed, errors,
                                         now - scanLocals[p][s].startTime))
        ELSE scanResults

\* "par": `return 0` at the check is inside the try, so that the finally
\* block runs for each source of the list that is not due.
SkippedResults(t) ==
    LET skipped == SelectSeq(GetSources(TRUE), LAMBDA row : ~IsDue(row, t))
    IN IF variant = "par"
       THEN [i \in 1..Len(skipped) |-> ScanResult(skipped[i].id, 0, 0, 0, 0)]
       ELSE <<>>

\* scanAllSources() is called and calls scanSingleSource().
BeginScans ==
    /\ TakeStartTimes(FoundSoFar)
    /\ scanResults' = scanResults \o SkippedResults(now)

ScanWarmupFire == WarmupFire /\ BeginScans

\* The catch pushes the message of the error, then the finally block runs.
ScanScrapeFail(p, s) ==
    /\ ScrapeFail(p, s)
    /\ TakeStartTimes(FoundSoFar)
    /\ Finally(p, s, 0, 0, 1)

\* `articlesFound = articles.length`.
ScanScrapeOk(p, s, page) ==
    /\ ScrapeOk(p, s, page)
    /\ LET found == Len(Slice(page, passes[p].scans[s].maxResults))
       IN /\ TakeStartTimes([FoundSoFar EXCEPT ![p][s] = found])
          /\ IF found = 0
             THEN Finally(p, s, 0, 0, 0)
             ELSE UNCHANGED scanResults

ScanAddArticle(p, s, out) == AddArticle(p, s, out) /\ ScanIdle

ScanFinishScan(p, s) ==
    /\ FinishScan(p, s)
    /\ TakeStartTimes(FoundSoFar)
    /\ Finally(p, s, scanLocals[p][s].articlesFound,
               passes[p].scans[s].processed, passes[p].scans[s].errors)

----------------------------------------------------------------------------
(* ScrapingService *)

SourceTypes == {"website", "twitter", "facebook"}

\* The candidate elements of a page, in document order: what extractTitle
\* found in the element (a title or '') and the length of its text.
ContentLengths == {MinTweetLength - 1, MinTweetLength,
                   MinPostLength - 1, MinPostLength,
                   MinContentLength, MinContentLength + 1}
Elements == [hasTitle : BOOLEAN, length : ContentLengths]

RECURSIVE DocumentsUpTo(_)
DocumentsUpTo(n) ==
    IF n = 0 THEN {<<>>}
    ELSE LET shorter == DocumentsUpTo(n - 1)
         IN shorter \cup {Append(d, e) : d \in {x \in shorter : Len(x) = n - 1},
                                         e \in Elements}

Documents == DocumentsUpTo(MaxElements)

NoScrape == [state |-> "none"]

ScraperIdle == UNCHANGED <<scrape, scraped>>
SchedulerIdle == UNCHANGED schedulerVars
AnnotatorIdle == UNCHANGED annotatorVars

\* extractArticlesFromHtml(): foundElements.each stops (`return false`)
\* once `articles.length >= source.maxResults`; an element is pushed when
\* `title && content && content.length > 100`.
RECURSIVE EachElement(_, _, _, _)
EachElement(elements, index, found, maxResults) ==
    IF index > Len(elements) \/ Len(found) >= maxResults
    THEN found
    ELSE IF elements[index].hasTitle
            /\ elements[index].length > MinContentLength
         THEN EachElement(elements, index + 1, Append(found, index), maxResults)
         ELSE EachElement(elements, index + 1, found, maxResults)

ExtractArticlesFromHtml(elements, maxResults) ==
    EachElement(elements, 1, <<>>, maxResults)

\* The loop of scrapeTwitter() and scrapeFacebook():
\* `for (let i = 0; i < Math.min(elements.length, maxResults); i++)` with
\* `if (!content || content.length < minLength) continue;`.
RECURSIVE FeedLoop(_, _, _, _, _)
FeedLoop(elements, i, found, maxResults, minLength) ==
    IF ~(i - 1 < (IF Len(elements) < maxResults THEN Len(elements)
                                                ELSE maxResults))
    THEN found
    ELSE IF elements[i].length < minLength
         THEN FeedLoop(elements, i + 1, found, maxResults, minLength)
         ELSE FeedLoop(elements, i + 1, Append(found, i), maxResults, minLength)

ScrapeTwitter(elements, maxResults) ==
    FeedLoop(elements, 1, <<>>, maxResults, MinTweetLength)

ScrapeFacebook(elements, maxResults) ==
    FeedLoop(elements, 1, <<>>, maxResults, MinPostLength)

\* scrapeSource(): the switch on source.type, then
\* `return articles.slice(0, source.maxResults)`.
ScrapeSource ==
    /\ scrape.state = "called"
    /\ LET found == CASE scrape.type = "website" ->
                            ExtractArticlesFromHtml(scrape.elements, scrape.maxResults)
                      [] scrape.type = "twitter" ->
                            ScrapeTwitter(scrape.elements, scrape.maxResults)
                      [] scrape.type = "facebook" ->
                            ScrapeFacebook(scrape.elements, scrape.maxResults)
       IN scraped' = Slice(found, scrape.maxResults)
    /\ scrape' = [scrape EXCEPT !.state = "returned"]
    /\ UNCHANGED <<variant, now, ticked, isRunning, tasks, armed, warmups,
                   api, sources, broken, rows, passes, begun, hasFailed>>

----------------------------------------------------------------------------
(* ScrapingService: the URL of a fragment, and scans that come again *)

\* What an element of a page holds for its URL: no usable link, or a link
\* to one of the article URLs.
NoLink == 0
Links == {NoLink} \cup Urls

\* Elements that every extraction loop keeps, with their link.
LinkedElements == [hasTitle : {TRUE}, length : {MinContentLength + 1}, link : Links]

RECURSIVE LinkedDocumentsUpTo(_)
LinkedDocumentsUpTo(n) ==
    IF n = 0 THEN {<<>>}
    ELSE LET shorter == LinkedDocumentsUpTo(n - 1)
         IN shorter \cup {Append(d, e) : d \in {x \in shorter : Len(x) = n - 1},
                                         e \in LinkedElements}

\* The url of the article made of an element, at the time t of the
\* extraction.
\*   website   extractUrl(): the href of the first link of the element, else
\*             `${sourceUrl}#article-${Date.now()}`
\*   twitter   the status link of the tweet, else window.location.href
\*   facebook  window.location.href
UrlOf(type, element, t) ==
    CASE type = "website" ->
             IF element.link # NoLink THEN [kind |-> "href", id |-> element.link]
             ELSE [kind |-> "synthetic", id |-> t]
      [] type = "twitter" ->
             IF element.link # NoLink THEN [kind |-> "href", id |-> element.link]
             ELSE [kind |-> "page", id |-> 0]
      [] type = "facebook" -> [kind |-> "page", id |-> 0]

\* The urls of the articles scrapeSource() has returned.
FragmentUrls(type, elements, positions, t) ==
    [i \in 1..Len(positions) |-> UrlOf(type, elements[positions[i]], t)]

\* scanSingleSource() has the articles and enters its save loop.
BeginSave ==
    /\ scrape.state = "returned"
    /\ scrape' = [scrape EXCEPT
            !.state = "saving",
            !.pending = FragmentUrls(scrape.type, scrape.elements, scraped, now)]
    /\ UNCHANGED <<variant, now, ticked, isRunning, tasks, armed, warmups,
                   api, sources, broken, rows, passes, begun, hasFailed, scraped>>

\* One turn of the save loop: addArticle() for the next article.
SaveNext(out) ==
    /\ scrape.state = "saving"
    /\ scrape.pending # <<>>
    /\ out \in InsertOutcomes(Head(scrape.pending))
    /\ rows' = InsertArticle(1, Head(scrape.pending), out)
    /\ scrape' = [scrape EXCEPT !.pending = Tail(@)]
    /\ UNCHANGED <<variant, now, ticked, isRunning, tasks, armed, warmups,
                   api, sources, broken, passes, begun, hasFailed, scraped>>

\* The source is due again and its page, which has not changed, is scraped
\* once more.
Rescan ==
    /\ scrape.state = "saving"
    /\ scrape.pending = <<>>
    /\ now + TimeStep <= MaxSteps * TimeStep
    /\ now' = now + TimeStep
    /\ scrape' = [scrape EXCEPT !.state = "called", !.round = @ + 1]
    /\ UNCHANGED <<variant, ticked, isRunning, tasks, armed, warmups,
                   api, sources, broken, rows, passes, begun, hasFailed, scraped>>

----------------------------------------------------------------------------
(* ScrapingService: the HTTP fetch, the shared browser, shutdown *)

Callers == 1..NumCallers
NoBrowser == 0

BrowserIdle == UNCHANGED browserVars

IdleCall == [pc |-> "idle", type |-> "website", httpFailed |-> FALSE,
             got |-> NoBrowser, result |-> "none"]

Calling(c, pc) == phase = "up" /\ callers[c].pc = pc

\* The frame of a step of caller c that touches only its own call.
CallStep(c, call) ==
    /\ callers' = [callers EXCEPT ![c] = call]
    /\ UNCHANGED <<phase, browser, launches, openBrowsers>>
    /\ SchedulerIdle /\ ScraperIdle /\ AnnotatorIdle /\ ScanIdle
    /\ LocalIdle /\ RoutesIdle

\* scrapeSource(source): the switch on source.type.  A website goes to the
\* HTTP fetch of scrapeWebsite(), a twitter or facebook source straight to
\* initializeBrowser().
CallScrapeSource(c, type) ==
    /\ phase = "up"
    /\ callers[c].pc \in {"idle", "returned", "threw"}
    /\ CallStep(c, [IdleCall EXCEPT !.type = type,
                       !.pc = IF type = "website" THEN "http" ELSE "init"])

\* scrapeWebsite(): axios.get() and extractArticlesFromHtml() succeed: the
\* articles of the fetched document are returned.
HttpOk(c) ==
    /\ Calling(c, "http")
    /\ CallStep(c, [callers[c] EXCEPT !.pc = "returned", !.result = "static"])

\* Mutant of HttpFail: no catch around the HTTP fetch: its error is thrown
\* to the caller.
HttpFailThrows(c) ==
    /\ Calling(c, "http")
    /\ CallStep(c, [callers[c] EXCEPT !.pc = "threw", !.httpFailed = TRUE])

\* scrapeWebsite(): the try block throws (timeout, status, parse error);
\* the catch calls scrapeWithBrowser(source).
HttpFail(c) ==
    /\ Calling(c, "http")
    /\ CallStep(c, [callers[c] EXCEPT !.pc = "init", !.httpFailed = TRUE])

\* initializeBrowser(): `if (!this.browser)` starts puppeteer.launch() and
\* awaits it; otherwise `return this.browser`.
InitializeBrowser(c) ==
    /\ Calling(c, "init")
    /\ IF browser = NoBrowser
       THEN /\ launches < MaxLaunches
            /\ CallStep(c, [callers[c] EXCEPT !.pc = "launching"])
       ELSE CallStep(c, [callers[c] EXCEPT !.pc = "page", !.got = browser])

\* puppeteer.launch() resolves: `this.browser = <the new instance>` and
\* `return this.browser`.
LaunchDone(c) ==
    /\ Calling(c, "launching")
    /\ launches' = launches + 1
    /\ browser' = launches + 1
    /\ openBrowsers' = openBrowsers \cup {launches + 1}
    /\ callers' = [callers EXCEPT ![c] = [@ EXCEPT !.pc = "page",
                                                   !.got = launches + 1]]
    /\ UNCHANGED phase
    /\ SchedulerIdle /\ ScraperIdle /\ AnnotatorIdle /\ ScanIdle
    /\ LocalIdle /\ RoutesIdle

\* puppeteer.launch() rejects: the error leaves initializeBrowser() and
\* scrapeWithBrowser().
LaunchFail(c) ==
    /\ Calling(c, "launching")
    /\ CallStep(c, [callers[c] EXCEPT !.pc = "threw"])

\* scrapeWithBrowser() / scrapeTwitter() / scrapeFacebook(): newPage, goto,
\* extraction from the rendered page; the page is closed in the finally.
PageOk(c) ==
    /\ Calling(c, "page")
    /\ callers[c].got \in openBrowsers
    /\ CallStep(c, [callers[c] EXCEPT !.pc = "returned", !.result = "rendered"])

\* newPage() or goto() throws: the finally closes the page, the error goes
\* to the caller.
PageFail(c) ==
    /\ Calling(c, "page")
    /\ CallStep(c, [callers[c] EXCEPT !.pc = "threw"])

\* shutdown(), called on SIGTERM and SIGINT before process.exit(0): the
\* scheduler is stopped and the database closed.  The ScrapingService is
\* not told: its dispose() is called from nowhere.
Shutdown ==
    /\ phase = "up"
    /\ Stop
    /\ phase' = "exited"
    /\ UNCHANGED <<browser, launches, openBrowsers, callers>>
    /\ ScraperIdle /\ AnnotatorIdle /\ ScanIdle /\ LocalIdle /\ RoutesIdle

----------------------------------------------------------------------------
(* SummarizationService: summarizeArticles / summarizeArticle *)

\* An article handed to summarizeArticles(): its place in the list, and
\* whether the local algorithm (createIntelligentSummary, analyzeSentiment,
\* extractKeywords) throws on its content.
ArticlesOfLength(n) ==
    {a \in [1..n -> [id : 1..n, localThrows : BOOLEAN]] :
        \A i \in 1..n : a[i].id = i}

ArticleLists == UNION {ArticlesOfLength(n) : n \in 0..MaxArticles}

Thrown == [kind |-> "throw"]

\* summarizeWithFallback(): summary, sentiment and keywords by the local
\* algorithm.
SummarizeWithFallback(article) ==
    IF article.localThrows THEN Thrown
    ELSE [kind |-> "value", id |-> article.id, summary |-> "local"]

\* summarizeWithOpenAI(): the summary of the completion; sentiment and
\* keywords by the local algorithm.  A failed call throws.
SummarizeWithOpenAI(article, aiOk) ==
    IF ~aiOk \/ article.localThrows THEN Thrown
    ELSE [kind |-> "value", id |-> article.id, summary |-> "ai"]

\* summarizeArticle(): with an API key summarizeWithOpenAI, else
\* summarizeWithFallback; the catch runs summarizeWithFallback (again).
SummarizeArticle(article, aiOk) ==
    LET first == IF hasApiKey THEN SummarizeWithOpenAI(article, aiOk)
                 ELSE SummarizeWithFallback(article)
    IN IF first.kind = "value" THEN first
       ELSE SummarizeWithFallback(article)

\* One turn of the loop of summarizeArticles(): the result is pushed; an
\* error of summarizeArticle() is logged and the loop goes on.
SummarizeNext(aiOk) ==
    /\ toSummarize # <<>>
    /\ LET result == SummarizeArticle(Head(toSummarize), aiOk)
       IN summarized' = IF result.kind = "value"
                        THEN Append(summarized, result)
                        ELSE summarized
    /\ toSummarize' = Tail(toSummarize)
    /\ UNCHANGED <<hasApiKey, handed, batch>>
    /\ SchedulerIdle /\ ScraperIdle /\ BrowserIdle /\ ScanIdle
    /\ LocalIdle /\ RoutesIdle

\* summarizeArticles() of news_aggregator_app.ts goes through the articles
\* in batches of batchSize.
BatchSize == 3

\* summarizeArticle() of news_aggregator_app.ts: the analysis of the
\* completion, else, from its catch, the fallback summary; an error of the
\* fallback sends the catch handler of the batch to the same fallback, and
\* the promise is rejected.
SummarizeArticleOfApp(article, aiOk) ==
    IF aiOk THEN [kind |-> "value", id |-> article.id, summary |-> "ai"]
    ELSE IF article.localThrows THEN Thrown
    ELSE [kind |-> "value", id |-> article.id, summary |-> "local"]

\* `batch.map(article => this.summarizeArticle(article).catch(...))`: the
\* calls for the next batchSize articles are all made, each up to the
\* await of its completion.
StartBatch ==
    /\ batch = <<>>
    /\ toSummarize # <<>>
    /\ LET size == IF Len(toSummarize) < BatchSize THEN Len(toSummarize)
                   ELSE BatchSize
       IN /\ batch' = [i \in 1..size |->
                          [article |-> toSummarize[i], state |-> "pending"]]
          /\ toSummarize' = SubSeq(toSummarize, size + 1, Len(toSummarize))
    /\ UNCHANGED <<hasApiKey, handed, summarized>>
    /\ SchedulerIdle /\ ScraperIdle /\ BrowserIdle /\ ScanIdle
    /\ LocalIdle /\ RoutesIdle

\* The completion of one call of the batch arrives, or fails: its promise
\* settles.
SettleOne(i, aiOk) ==
    /\ i \in 1..Len(batch)
    /\ batch[i].state = "pending"
    /\ LET result == SummarizeArticleOfApp(batch[i].article, aiOk)
       IN batch' = [batch EXCEPT ![i] =
              IF result.kind = "value"
              THEN [article |-> @.article, state |-> "fulfilled", value |-> result]
              ELSE [article |-> @.article, state |-> "rejected"]]
    /\ UNCHANGED <<hasApiKey, handed, toSummarize, summarized>>
    /\ SchedulerIdle /\ ScraperIdle /\ BrowserIdle /\ ScanIdle
    /\ LocalIdle /\ RoutesIdle

\* The values of the fulfilled promises of a batch, in the order of the
\* batch.
RECURSIVE Fulfilled(_)
Fulfilled(results) ==
    IF results = <<>> THEN <<>>
    ELSE (IF Head(results).state = "fulfilled" THEN <<Head(results).value>>
          ELSE <<>>) \o Fulfilled(Tail(results))

\* `await Promise.allSettled(batchPromises)` returns: the fulfilled values
\* are pushed in the order of the batch.
CollectBatch ==
    /\ batch # <<>>
    /\ \A i \in 1..Len(batch) : batch[i].state # "pending"
    /\ summarized' = summarized \o Fulfilled(batch)
    /\ batch' = <<>>
    /\ UNCHANGED <<hasApiKey, handed, toSummarize>>
    /\ SchedulerIdle /\ ScraperIdle /\ BrowserIdle /\ ScanIdle
    /\ LocalIdle /\ RoutesIdle

----------------------------------------------------------------------------
(* SummarizationService: the local algorithms *)

\* A body is a sequence of tokens: runs of text that hold none of . ! ?
\* and no white space at their ends, single spaces, and terminators.  A
\* run of text is known by what the algorithm reads of it: its length, the
\* number of its words, how many of the six important words it holds, and
\* whether it holds a digit, a quote or 'http'.
Space == [ch |-> " ", len |-> 1, words |-> 0, important |-> 0,
          digit |-> FALSE, quote |-> FALSE, http |-> FALSE]
Terminator(ch) == [Space EXCEPT !.ch = ch]
Terminators == {Terminator("."), Terminator("!"), Terminator("?")}

Text(name, len, words, important, digit, http) ==
    [ch |-> name, len |-> len, words |-> words, important |-> important,
     digit |-> digit, quote |-> FALSE, http |-> http]

\* The texts the bodies are made of: one that is just too short to be a
\* sentence, one just long enough, and three that differ in their score.
Brief == Text("brief", MinSentenceLength, 2, 0, FALSE, FALSE)
Plain == Text("plain", MinSentenceLength + 1, 2, 0, FALSE, FALSE)
Report == Text("report", 48, MinWords, 0, FALSE, FALSE)
News == Text("news", 52, MinWords, 1, TRUE, FALSE)
Link == Text("link", 30, 3, 0, FALSE, TRUE)
Texts == {Brief, Plain, Report, News, Link}

\* How a text ends in a body: a news with "!", a link with "..." and the
\* others with a full stop.
Ending(text) ==
    IF text = News THEN <<Terminator("!")>>
    ELSE IF text = Link THEN <<Terminator("."), Terminator("."), Terminator(".")>>
    ELSE <<Terminator(".")>>

RECURSIVE DraftsUpTo(_)
DraftsUpTo(n) ==
    IF n = 0 THEN {<<>>}
    ELSE LET shorter == DraftsUpTo(n - 1)
         IN shorter \cup {Append(d, t) : d \in {x \in shorter : Len(x) = n - 1},
                                          t \in Texts}

Drafts == DraftsUpTo(MaxSentences)

\* The body of a draft: its texts, each with its ending, a space between.
RECURSIVE Render(_)
Render(draft) ==
    IF draft = <<>> THEN <<>>
    ELSE <<Head(draft)>> \o Ending(Head(draft)) \o
         (IF Tail(draft) = <<>> THEN <<>> ELSE <<Space>> \o Render(Tail(draft)))

\* text.split(/[.!?]+/): the pieces between the runs of terminators, the
\* empty piece after a final terminator included.
RECURSIVE Split(_, _, _)
Split(text, piece, inRun) ==
    IF text = <<>> THEN <<piece>>
    ELSE IF Head(text) \in Terminators
         THEN (IF inRun THEN <<>> ELSE <<piece>>) \o Split(Tail(text), <<>>, TRUE)
         ELSE Split(Tail(text), Append(piece, Head(text)), FALSE)

\* s.trim()
RECURSIVE TrimStart(_)
TrimStart(piece) ==
    IF piece # <<>> /\ Head(piece) = Space THEN TrimStart(Tail(piece)) ELSE piece

RECURSIVE TrimEnd(_)
TrimEnd(piece) ==
    IF piece # <<>> /\ piece[Len(piece)] = Space
    THEN TrimEnd(SubSeq(piece, 1, Len(piece) - 1))
    ELSE piece

Trim(piece) == TrimEnd(TrimStart(piece))

\* s.length
RECURSIVE Length(_)
Length(piece) == IF piece = <<>> THEN 0 ELSE Head(piece).len + Length(Tail(piece))

\* splitIntoSentences(): split, trim each piece, keep those longer than 10.
SplitIntoSentences(text) ==
    LET pieces == Split(text, <<>>, FALSE)
        trimmed == [i \in 1..Len(pieces) |-> Trim(pieces[i])]
    IN SelectSeq(trimmed, LAMBDA piece : Length(piece) > MinSentenceLength)

\* sentence.split(/\s+/).length, and the other things scoreSentence reads.
RECURSIVE Words(_)
Words(sentence) ==
    IF sentence = <<>> THEN 0 ELSE Head(sentence).words + Words(Tail(sentence))

RECURSIVE Important(_)
Important(sentence) ==
    IF sentence = <<>> THEN 0
    ELSE Head(sentence).important + Important(Tail(sentence))

Holds(sentence, what) ==
    \E i \in 1..Len(sentence) :
        \/ what = "digit" /\ sentence[i].digit
        \/ what = "quote" /\ sentence[i].quote
        \/ what = "http" /\ sentence[i].http

\* scoreSentence(sentence, allSentences, position), position from 0.
ScoreSentence(sentence, position) ==
      (IF Words(sentence) >= MinWords /\ Words(sentence) <= MaxWords THEN 2 ELSE 0)
    + (IF position = 0 THEN FirstBonus ELSE IF position <= 2 THEN 1 ELSE 0)
    + Important(sentence)
    + (IF Holds(sentence, "digit") THEN 1 ELSE 0)
    + (IF Holds(sentence, "quote") THEN 1 ELSE 0)
    - (IF Holds(sentence, "http") THEN HttpPenalty ELSE 0)

\* Array.prototype.sort is stable: an item goes behind those it does not
\* come before.  .sort((a, b) => b.score - a.score)
RECURSIVE InsertByScore(_, _)
InsertByScore(item, sorted) ==
    IF sorted = <<>> THEN <<item>>
    ELSE IF item.score > Head(sorted).score
         THEN <<item>> \o sorted
         ELSE <<Head(sorted)>> \o InsertByScore(item, Tail(sorted))

RECURSIVE SortByScore(_, _)
SortByScore(items, sorted) ==
    IF items = <<>> THEN sorted
    ELSE SortByScore(Tail(items), InsertByScore(Head(items), sorted))

\* .sort((a, b) => a.index - b.index)
RECURSIVE InsertByIndex(_, _)
InsertByIndex(item, sorted) ==
    IF sorted = <<>> THEN <<item>>
    ELSE IF item.index < Head(sorted).index
         THEN <<item>> \o sorted
         ELSE <<Head(sorted)>> \o InsertByIndex(item, Tail(sorted))

RECURSIVE SortByIndex(_, _)
SortByIndex(items, sorted) ==
    IF items = <<>> THEN sorted
    ELSE SortByIndex(Tail(items), InsertByIndex(Head(items), sorted))

\* topSentences.join(' ')
RECURSIVE Join(_)
Join(sentences) ==
    IF sentences = <<>> THEN <<>>
    ELSE IF Tail(sentences) = <<>> THEN Head(sentences)
         ELSE Head(sentences) \o <<Space>> \o Join(Tail(sentences))

ScoredSentences(sentences) ==
    [i \in 1..Len(sentences) |->
        [sentence |-> sentences[i],
         score |-> ScoreSentence(sentences[i], i - 1),
         index |-> i - 1]]

\* Mutant of CreateIntelligentSummary: the top sentences are not put back
\* in their original order.
CreateSummaryByScore(text) ==
    LET sentences == SplitIntoSentences(text)
        top == SubSeq(SortByScore(ScoredSentences(sentences), <<>>), 1, TopSentences)
    IN IF Len(sentences) <= VerbatimLimit THEN text
       ELSE Trim(Join([i \in 1..Len(top) |-> top[i].sentence]))

\* createIntelligentSummary(content)
CreateIntelligentSummary(text) ==
    LET sentences == SplitIntoSentences(text)
        byScore == SortByScore(ScoredSentences(sentences), <<>>)
        top == SortByIndex(SubSeq(byScore, 1, TopSentences), <<>>)
    IN IF Len(sentences) <= VerbatimLimit THEN text
       ELSE Trim(Join([i \in 1..Len(top) |-> top[i].sentence]))

NotCalled == [of |-> "none"]

CallCreateIntelligentSummary ==
    /\ local = NotCalled
    /\ local' = [of |-> "createIntelligentSummary",
                 value |-> CreateIntelligentSummary(content)]
    /\ UNCHANGED content
    /\ SchedulerIdle /\ ScraperIdle /\ BrowserIdle /\ AnnotatorIdle
    /\ ScanIdle /\ RoutesIdle

----------------------------------------------------------------------------
(* SummarizationService.analyzeSentiment *)

\* For analyzeSentiment a body is a sequence of words, with white space
\* between them.
PositiveWords == <<"good", "great", "success", "growth", "win", "positive", "amazing">>
NegativeWords == <<"bad", "terrible", "crisis", "problem", "decline", "loss", "negative">>

\* The words the bodies are made of: words of the two lists, in lower and
\* in upper case, a word that holds one of them, and a word that holds none.
Vocabulary == {"good", "Great", "winter", "bad", "LOSS", "the"}

\* content.toLowerCase(), word by word.
ToLowerCase(word) ==
    CASE word = "Great" -> "great"
      [] word = "LOSS" -> "loss"
      [] OTHER -> word

\* The matches of new RegExp(word, 'g') in one lower-case word of the body:
\* the pattern matches wherever the word stands, inside a longer word too.
MatchesIn(token, word) ==
    IF token = word \/ (token = "winter" /\ word = "win") THEN 1 ELSE 0

\* (lowerContent.match(new RegExp(word, 'g')) || []).length
RECURSIVE MatchCount(_, _)
MatchCount(lowerContent, word) ==
    IF lowerContent = <<>> THEN 0
    ELSE MatchesIn(Head(lowerContent), word) + MatchCount(Tail(lowerContent), word)

\* words.forEach(word => { score += ... })
RECURSIVE ScoreOf(_, _)
ScoreOf(words, lowerContent) ==
    IF words = <<>> THEN 0
    ELSE MatchCount(lowerContent, Head(words)) + ScoreOf(Tail(words), lowerContent)

\* Mutant of AnalyzeSentiment: the thresholds are inclusive.
AnalyzeSentimentInclusive(text) ==
    LET lowerContent == [i \in 1..Len(text) |-> ToLowerCase(text[i])]
        diff == ScoreOf(PositiveWords, lowerContent) - ScoreOf(NegativeWords, lowerContent)
    IN IF diff >= SentimentThreshold THEN "positive"
       ELSE IF diff <= -SentimentThreshold THEN "negative"
       ELSE "neutral"

\* analyzeSentiment(content)
AnalyzeSentiment(text) ==
    LET lowerContent == [i \in 1..Len(text) |-> ToLowerCase(text[i])]
        positiveScore == ScoreOf(PositiveWords, lowerContent)
        negativeScore == ScoreOf(NegativeWords, lowerContent)
        diff == positiveScore - negativeScore
    IN IF diff > SentimentThreshold THEN "positive"
       ELSE IF diff < -SentimentThreshold THEN "negative"
       ELSE "neutral"

RECURSIVE WordListsUpTo(_)
WordListsUpTo(n) ==
    IF n = 0 THEN {<<>>}
    ELSE LET shorter == WordListsUpTo(n - 1)
         IN shorter \cup {Append(l, w) : l \in {x \in shorter : Len(x) = n - 1},
                                          w \in Vocabulary}

CallAnalyzeSentiment ==
    /\ local = NotCalled
    /\ local' = [of |-> "analyzeSentiment", value |-> AnalyzeSentiment(content)]
    /\ UNCHANGED content
    /\ SchedulerIdle /\ ScraperIdle /\ BrowserIdle /\ AnnotatorIdle
    /\ ScanIdle /\ RoutesIdle

----------------------------------------------------------------------------
(* sourceRoutes: POST /sources and PUT /sources/:id *)

\* The numbers a request can carry for scanFrequency and maxResults, the
\* time it can carry for lastScanned, and the request bodies: JSON objects
\* that hold any of these columns of the sources table.
Numbers == {-1, 0, 1, 4, 5, 10, 11}
Stamps == {TimeStep}
BodyKeys == {"scanFrequency", "maxResults", "lastScanned"}
BodyValues(key) == IF key = "lastScanned" THEN Stamps ELSE Numbers
Bodies ==
    UNION {{body \in [keys -> Numbers \cup Stamps] :
               \A key \in keys : body[key] \in BodyValues(key)} :
           keys \in SUBSET BodyKeys}

Max(a, b) == IF a >= b THEN a ELSE b
Min(a, b) == IF a <= b THEN a ELSE b

\* `const { scanFrequency = 30, maxResults = 3 } = req.body`
Destructure(body, key, default) == IF key \in DOMAIN body THEN body[key] ELSE default

\* router.post('/'): 400 when name, url or type is missing or wrong; else
\* the row is inserted with the clamped values.
PostSource(valid, body) ==
    /\ Len(registered) < MaxRegistered
    /\ IF ~valid
       THEN /\ response' = 400
            /\ UNCHANGED registered
       ELSE LET scanFrequency == Destructure(body, "scanFrequency", DefaultScanFrequency)
                maxResults == Destructure(body, "maxResults", DefaultMaxResults)
                sourceData == [scanFrequency |-> Max(MinScanFrequency, scanFrequency),
                               maxResults |-> Min(MaxResultsCap, Max(MinResultsCap, maxResults)),
                               lastScanned |-> Null]
            IN /\ registered' = Append(registered, sourceData)
               /\ response' = 201
    /\ UNCHANGED <<deleted, tested>>
    /\ SchedulerIdle /\ ScraperIdle /\ BrowserIdle /\ AnnotatorIdle
    /\ ScanIdle /\ LocalIdle

\* `if (updates.scanFrequency) ...`: a number is truthy unless it is 0.
Truthy(updates, key) == key \in DOMAIN updates /\ updates[key] # 0

\* router.put('/:id'), the body after the two clamping statements; the
\* other keys of the body are passed on as they are.
ClampUpdates(body) ==
    [key \in DOMAIN body |->
        IF ~Truthy(body, key) THEN body[key]
        ELSE IF key = "scanFrequency" THEN Max(MinScanFrequency, body[key])
        ELSE IF key = "maxResults"
             THEN Min(MaxResultsCap, Max(MinResultsCap, body[key]))
             ELSE body[key]]

\* updateSource(id, updates): UPDATE sources SET <key = ?, ...> WHERE id = ?
\* writes the keys of updates into the row with this id, if there is one.
UpdateRow(id, updates) ==
    [i \in 1..Len(registered) |->
        IF i # id THEN registered[i]
        ELSE [key \in BodyKeys |->
                 IF key \in DOMAIN updates THEN updates[key] ELSE registered[i][key]]]

\* router.put('/:id'): with no key the statement is not valid SQL and the
\* route answers 500; else the row is updated.
PutSource(id, body) ==
    /\ LET updates == ClampUpdates(body)
       IN IF DOMAIN updates = {}
          THEN /\ response' = 500
               /\ UNCHANGED registered
          ELSE /\ registered' = UpdateRow(id, updates)
               /\ response' = 200
    /\ UNCHANGED <<deleted, tested>>
    /\ SchedulerIdle /\ ScraperIdle /\ BrowserIdle /\ AnnotatorIdle
    /\ ScanIdle /\ LocalIdle

\* router.delete('/:id'): deleteSource(id) runs DELETE FROM sources WHERE
\* id = ?, and the route answers 200.  The articles of the source are left
\* in their table: the foreign key of articles.sourceId is declared, but
\* the connection never turns foreign keys on.  The scheduler is not told.
DeleteSource(id) ==
    /\ deleted' = deleted \cup {id}
    /\ response' = 200
    /\ UNCHANGED <<registered, tested>>
    /\ SchedulerIdle /\ ScraperIdle /\ BrowserIdle /\ AnnotatorIdle
    /\ ScanIdle /\ LocalIdle

\* Mutant of TestScan: the route records the test as a scan, writing
\* lastScanned of the source.
TestScanRecords(id, page) ==
    /\ response' = 200
    /\ tested' = Len(Slice(page, sources[id].maxResults))
    /\ sources' = UpdateSource(id, now)
    /\ UNCHANGED <<variant, now, ticked, isRunning, tasks, armed, warmups, api,
                   broken, rows, passes, begun, hasFailed>>
    /\ UNCHANGED <<registered, deleted>>
    /\ ScraperIdle /\ BrowserIdle /\ AnnotatorIdle /\ ScanIdle /\ LocalIdle

\* router.post('/:id/test'): the source is looked up in getSources(); 404
\* when it is not there; else scrapeSource(source) and the answer holds
\* the number of articles found; 500 when scrapeSource throws.  Nothing is
\* written.
TestScan(id, page) ==
    /\ IF \A i \in 1..Len(GetSources(FALSE)) : GetSources(FALSE)[i].id # id
       THEN /\ response' = 404
            /\ UNCHANGED tested
       ELSE IF id = broken
       THEN /\ response' = 500
            /\ UNCHANGED tested
       ELSE /\ response' = 200
            /\ tested' = Len(Slice(page, sources[id].maxResults))
    /\ UNCHANGED <<registered, deleted>>
    /\ SchedulerIdle /\ ScraperIdle /\ BrowserIdle /\ AnnotatorIdle
    /\ ScanIdle /\ LocalIdle

----------------------------------------------------------------------------
(* The specifications *)

\* The server has been constructed: the scheduler is stopped, no article is
\* stored and no pass is under way.  Source id has a cadence of id times
\* the minimum and a result cap of id.  The source that is down (broken)
\* was never scanned or was scanned at the instant 0; the others were never
\* scanned.
SourceTables(activeIds) ==
    {src \in [SourceIds ->
                [isActive : BOOLEAN, lastScanned : {Null, 0},
                 scanFrequency : {k * MinScanFrequency : k \in SourceIds},
                 maxResults : SourceIds]] :
        \A s \in SourceIds :
            /\ src[s].scanFrequency = s * MinScanFrequency
            /\ src[s].maxResults = s
            /\ src[s].isActive = (s \in activeIds)
            /\ s # broken => src[s].lastScanned = Null}

Constructed ==
    /\ variant \in {"seq", "par"}
    /\ now = 0
    /\ ticked = FALSE
    /\ isRunning = FALSE
    /\ tasks = {}
    /\ armed = 0
    /\ warmups = 0
    /\ api = "none"
    /\ broken \in 0..NumSources
    /\ rows = <<>>
    /\ passes = [p \in Slots |-> FreePass]
    /\ begun = 0
    /\ hasFailed = FALSE
    /\ scraped = <<>>
    /\ phase = "up"
    /\ browser = NoBrowser
    /\ launches = 0
    /\ openBrowsers = {}
    /\ callers = [c \in Callers |-> IdleCall]
    /\ summarized = <<>>
    /\ batch = <<>>
    /\ scanLocals = [p \in Slots |-> [s \in SourceIds |-> NoLocals]]
    /\ scanResults = <<>>
    /\ local = NotCalled
    /\ registered = <<>>
    /\ response = 0
    /\ deleted = {}
    /\ tested = Null

\* What a step of the scheduler leaves alone.
OutsideScan ==
    ScraperIdle /\ BrowserIdle /\ AnnotatorIdle /\ LocalIdle /\ RoutesIdle
OutsideScheduler == OutsideScan /\ ScanIdle

\* No summarizeArticles() is under way.
NoAnnotation ==
    /\ content = <<>>
    /\ hasApiKey = FALSE
    /\ handed = 0
    /\ toSummarize = <<>>

\* The pipeline at work: the server calls start() once (server.ts,
\* initialize) and the timers drive the passes.  Every source is active,
\* but the last, which may have been deactivated.
Init ==
    /\ Constructed
    /\ scrape = NoScrape
    /\ NoAnnotation
    /\ \E last \in BOOLEAN :
          sources \in SourceTables({s \in SourceIds : s < NumSources \/ last})

Next ==
    \/ (~isRunning /\ Start /\ OutsideScheduler)
    \/ (Advance /\ OutsideScheduler)
    \/ (CronFire /\ OutsideScheduler)
    \/ (WarmupFire /\ OutsideScheduler)
    \/ \E p \in Slots, s \in SourceIds : ScrapeFail(p, s) /\ OutsideScheduler
    \/ \E p \in Slots, s \in SourceIds, page \in Pages :
          ScrapeOk(p, s, page) /\ OutsideScheduler
    \/ \E p \in Slots, s \in SourceIds, u \in Urls :
          \E out \in InsertOutcomes(u) : AddArticle(p, s, out) /\ OutsideScheduler
    \/ \E p \in Slots, s \in SourceIds : FinishScan(p, s) /\ OutsideScheduler

Spec == Init /\ [][Next]_vars

\* The scheduler under any calls of start() and stop(), with one active
\* source whose extraction works.
InitControl ==
    /\ Constructed
    /\ scrape = NoScrape
    /\ NoAnnotation
    /\ broken = 0
    /\ sources \in SourceTables({1})

NextControl ==
    \/ (Start /\ OutsideScheduler)
    \/ (Stop /\ OutsideScheduler)
    \/ (Advance /\ OutsideScheduler)
    \/ (CronFire /\ OutsideScheduler)
    \/ (WarmupFire /\ OutsideScheduler)
    \/ \E p \in Slots, s \in SourceIds, page \in Pages :
          ScrapeOk(p, s, page) /\ OutsideScheduler
    \/ \E p \in Slots, s \in SourceIds, u \in Urls :
          \E out \in InsertOutcomes(u) : AddArticle(p, s, out) /\ OutsideScheduler
    \/ \E p \in Slots, s \in SourceIds : FinishScan(p, s) /\ OutsideScheduler

SpecControl == InitControl /\ [][NextControl]_vars

\* One call of scrapeSource(), for any source type, result cap and page.
InitScrape ==
    /\ Constructed
    /\ NoAnnotation
    /\ variant = "seq"
    /\ broken = 0
    /\ sources \in SourceTables({})
    /\ scrape \in [state : {"called"}, type : SourceTypes,
                    maxResults : 1..MaxCap, elements : Documents]

NextScrape ==
    ScrapeSource /\ BrowserIdle /\ AnnotatorIdle /\ ScanIdle /\ LocalIdle /\ RoutesIdle

SpecScrape == InitScrape /\ [][NextScrape]_vars

\* The ScrapingService under concurrent calls, up to the shutdown of the
\* server.
InitBrowser ==
    /\ Constructed
    /\ NoAnnotation
    /\ variant = "par"
    /\ broken = 0
    /\ scrape = NoScrape
    /\ sources \in SourceTables({})

NextBrowser ==
    \/ \E c \in Callers, type \in SourceTypes : CallScrapeSource(c, type)
    \/ \E c \in Callers : HttpOk(c)
    \/ \E c \in Callers : HttpFail(c)
    \/ \E c \in Callers : InitializeBrowser(c)
    \/ \E c \in Callers : LaunchDone(c)
    \/ \E c \in Callers : LaunchFail(c)
    \/ \E c \in Callers : PageOk(c)
    \/ \E c \in Callers : PageFail(c)
    \/ Shutdown

SpecBrowser == InitBrowser /\ [][NextBrowser]_vars

\* One call of summarizeArticles(), with or without an API key, for any
\* list of articles.
InitAnnotate ==
    /\ Constructed
    /\ content = <<>>
    /\ variant = "seq"
    /\ broken = 0
    /\ scrape = NoScrape
    /\ sources \in SourceTables({})
    /\ hasApiKey \in BOOLEAN
    /\ toSummarize \in ArticleLists
    /\ handed = Len(toSummarize)

NextAnnotate == \E aiOk \in BOOLEAN : SummarizeNext(aiOk)

SpecAnnotate == InitAnnotate /\ [][NextAnnotate]_vars

\* The warm-up pass of a started scheduler, with the routes that delete
\* a source and test it called at any moment.
InitAdmin ==
    /\ Constructed
    /\ scrape = NoScrape
    /\ NoAnnotation
    /\ sources \in SourceTables(SourceIds)

NextAdmin ==
    \/ (~isRunning /\ Start /\ OutsideScheduler)
    \/ (WarmupFire /\ OutsideScheduler)
    \/ \E p \in Slots, s \in SourceIds : ScrapeFail(p, s) /\ OutsideScheduler
    \/ \E p \in Slots, s \in SourceIds, page \in Pages :
          ScrapeOk(p, s, page) /\ OutsideScheduler
    \/ \E p \in Slots, s \in SourceIds, u \in Urls :
          \E out \in InsertOutcomes(u) : AddArticle(p, s, out) /\ OutsideScheduler
    \/ \E p \in Slots, s \in SourceIds : FinishScan(p, s) /\ OutsideScheduler
    \/ \E id \in SourceIds : DeleteSource(id)
    \/ \E id \in SourceIds, page \in Pages : TestScan(id, page)

SpecAdmin == InitAdmin /\ [][NextAdmin]_vars

\* The passes of src/src/server/services/SchedulerService.ts with every
\* collaborator liable to throw: getSources, scrapeSource,
\* summarizeArticles, addArticle, updateSource.  The extraction of the first
\* source throws at every call; the calls for the other sources fail or not.
InitTick ==
    /\ Constructed
    /\ broken = 1
    /\ scrape = NoScrape
    /\ NoAnnotation
    /\ variant = "seq"
    /\ sources \in SourceTables(SourceIds)

\* A collaborator call of a scan under way returns or throws.
CollaboratorSteps ==
    \/ \E p \in Slots, s \in SourceIds : ScrapeFail(p, s) /\ OutsideScheduler
    \/ \E p \in Slots, s \in SourceIds, page \in Pages :
          ScrapeOk(p, s, page) /\ OutsideScheduler
    \/ \E p \in Slots, s \in SourceIds : AnnotateFails(p, s) /\ OutsideScheduler
    \/ \E p \in Slots, s \in SourceIds, u \in Urls :
          \E out \in InsertOutcomes(u) \cup StorageFailures :
              AddArticle(p, s, out) /\ OutsideScheduler
    \/ \E p \in Slots, s \in SourceIds : FinishScan(p, s) /\ OutsideScheduler
    \/ \E p \in Slots, s \in SourceIds : UpdateFails(p, s) /\ OutsideScheduler

NextTick ==
    \/ (~isRunning /\ Start /\ OutsideScheduler)
    \/ (Advance /\ OutsideScheduler)
    \/ (CronFire /\ OutsideScheduler)
    \/ (CronFireListFails /\ OutsideScheduler)
    \/ (WarmupFire /\ OutsideScheduler)
    \/ (WarmupFireListFails /\ OutsideScheduler)
    \/ CollaboratorSteps

SpecTick == InitTick /\ [][NextTick]_vars

\* Every collaborator call returns or throws in the end.
FairTick == SpecTick /\ WF_vars(CollaboratorSteps)

\* summarizeArticles() of news_aggregator_app.ts, for any list of up to
\* MaxBatched articles.
InitBatch ==
    /\ Constructed
    /\ content = <<>>
    /\ variant = "par"
    /\ broken = 0
    /\ scrape = NoScrape
    /\ sources \in SourceTables({})
    /\ hasApiKey = TRUE
    /\ toSummarize \in UNION {ArticlesOfLength(n) : n \in 0..MaxBatched}
    /\ handed = Len(toSummarize)

NextBatch ==
    \/ StartBatch
    \/ \E i \in 1..BatchSize, aiOk \in BOOLEAN : SettleOne(i, aiOk)
    \/ CollectBatch

SpecBatch == InitBatch /\ [][NextBatch]_vars

\* The scans with their locals and results, in the pass that start() sets
\* off; addArticle() can fail for any reason, and the clock moves while
\* the scans are under way.
InitScan ==
    /\ Constructed
    /\ scrape = NoScrape
    /\ NoAnnotation
    /\ sources \in SourceTables(SourceIds)

NextScans ==
    \/ (~isRunning /\ Start /\ OutsideScheduler)
    \/ (Advance /\ OutsideScheduler)
    \/ (ScanWarmupFire /\ OutsideScan)
    \/ \E p \in Slots, s \in SourceIds : ScanScrapeFail(p, s) /\ OutsideScan
    \/ \E p \in Slots, s \in SourceIds, page \in Pages :
          ScanScrapeOk(p, s, page) /\ OutsideScan
    \/ \E p \in Slots, s \in SourceIds, u \in Urls :
          \E out \in InsertOutcomes(u) \cup StorageFailures :
              ScanAddArticle(p, s, out) /\ OutsideScan
    \/ \E p \in Slots, s \in SourceIds : ScanFinishScan(p, s) /\ OutsideScan

SpecScan == InitScan /\ [][NextScans]_vars

\* One call of createIntelligentSummary(), for any body of up to
\* MaxSentences fragments.
InitSummary ==
    /\ Constructed
    /\ scrape = NoScrape
    /\ hasApiKey = FALSE
    /\ handed = 0
    /\ toSummarize = <<>>
    /\ variant = "seq"
    /\ broken = 0
    /\ sources \in SourceTables({})
    /\ content \in {Render(draft) : draft \in Drafts}

NextSummary == CallCreateIntelligentSummary

SpecSummary == InitSummary /\ [][NextSummary]_vars

\* One call of analyzeSentiment(), for any body of up to MaxTokens words.
InitSentiment ==
    /\ Constructed
    /\ scrape = NoScrape
    /\ hasApiKey = FALSE
    /\ handed = 0
    /\ toSummarize = <<>>
    /\ variant = "seq"
    /\ broken = 0
    /\ sources \in SourceTables({})
    /\ content \in WordListsUpTo(MaxTokens)

NextSentiment == CallAnalyzeSentiment

SpecSentiment == InitSentiment /\ [][NextSentiment]_vars

\* The sources routes under any sequence of POST and PUT requests.
InitRoutes ==
    /\ Constructed
    /\ scrape = NoScrape
    /\ NoAnnotation
    /\ variant = "seq"
    /\ broken = 0
    /\ sources \in SourceTables({})

NextRoutes ==
    \/ \E valid \in BOOLEAN, body \in Bodies : PostSource(valid, body)
    \/ \E id \in 1..MaxRegistered, body \in Bodies : PutSource(id, body)

SpecRoutes == InitRoutes /\ [][NextRoutes]_vars

\* The scans of one source whose page does not change: each scan scrapes
\* the page, saves its articles, and the next one follows a cadence later.
InitUrls ==
    /\ Constructed
    /\ NoAnnotation
    /\ variant = "seq"
    /\ broken = 0
    /\ sources \in SourceTables({})
    /\ scrape \in [state : {"called"}, type : SourceTypes,
                    maxResults : 1..MaxCap,
                    elements : LinkedDocumentsUpTo(MaxElements),
                    pending : {<<>>}, round : {1}]

NextUrls ==
    \/ (ScrapeSource /\ BrowserIdle /\ AnnotatorIdle /\ ScanIdle /\ LocalIdle /\ RoutesIdle)
    \/ (BeginSave /\ BrowserIdle /\ AnnotatorIdle /\ ScanIdle /\ LocalIdle /\ RoutesIdle)
    \/ \E url \in {Head(scrape.pending) : n \in 1..Len(scrape.pending)} :
          \E out \in InsertOutcomes(url) :
             SaveNext(out) /\ BrowserIdle /\ AnnotatorIdle /\ ScanIdle /\ LocalIdle /\ RoutesIdle
    \/ (Rescan /\ BrowserIdle /\ AnnotatorIdle /\ ScanIdle /\ LocalIdle /\ RoutesIdle)

SpecUrls == InitUrls /\ [][NextUrls]_vars

----------------------------------------------------------------------------
(* What the claims speak of *)

InFlightStates == {"scraping", "saving"}
InFlight(p, s) ==
    passes[p].status = "running" /\ passes[p].scans[s].st \in InFlightStates

\* The sources a pass has still to call scanSingleSource for.
TodoIds(p) == {passes[p].todo[i].id : i \in 1..Len(passes[p].todo)}

\* The rule of the specification: a source is due if it has never been
\* scanned, or if now >= lastScanned + cadence (in minutes).
DueByRule(row, t) ==
    \/ row.lastScanned = Null
    \/ t >= row.lastScanned + row.scanFrequency * MsPerMinute

\* The rows a pass p runs the check for in a step: all of the table when
\* the pass begins in the step, else those the step takes off its list.
RowsBefore(p) ==
    IF begun' # begun
    THEN (IF p = FirstSlot THEN GetSources(FALSE) ELSE <<>>)
    ELSE passes[p].todo

Checked(p) ==
    {RowsBefore(p)[i] : i \in {k \in 1..Len(RowsBefore(p)) :
                                  RowsBefore(p)[k].id \notin TodoIds(p)'}}

Attempted(p, row) == passes'[p].scans[row.id].st = "scraping"

\* The extraction of the scan of source s in pass p ends in this step, and
\* s is the source whose extraction throws whenever it is called.
FailureStep(p, s) ==
    /\ s = broken
    /\ Scanning(p, s, "scraping")
    /\ passes'[p].scans[s].st # "scraping"

\* addArticle is called for the next fragment of the scan in this step.
IngestStep(p, s) ==
    /\ Scanning(p, s, "saving")
    /\ passes'[p].scans[s].st = "saving"
    /\ passes'[p].scans[s].frags # passes[p].scans[s].frags

\* The url is in the articles table after the step.
StoredNext(url) == \E k \in 1..Len(rows') : rows'[k].url = url

\* The scan of source s in pass p, which holds fragments, returns in this step.
ReturnStep(p, s) ==
    /\ Scanning(p, s, "saving")
    /\ passes'[p].scans[s].st # "saving"

----------------------------------------------------------------------------
(* C1 *)

----------------------------------------------------------------------------
(* C2 *)

UniqueUrls ==
    \A i, j \in 1..Len(rows) : i # j => rows[i].url # rows[j].url

\* C2: idempotent ingestion per URL.  The articles table never holds two
\* rows with one url; an addArticle of a url that is stored already changes
\* neither the table nor the scan's processed and error counts; an
\* addArticle of a url that is not stored appends one row with that url and
\* adds one to the processed count.
C2_IdempotentIngest ==
    /\ []UniqueUrls
    /\ [][\A p \in Slots, s \in SourceIds :
             IngestStep(p, s) =>
                LET scan == passes[p].scans[s]
                    after == passes'[p].scans[s]
                    url == Head(scan.frags)
                IN IF UrlStored(url)
                   THEN /\ rows' = rows
                        /\ after.processed = scan.processed
                        /\ after.errors = scan.errors
                   ELSE /\ rows' = Append(rows, [url |-> url, sourceId |-> s])
                        /\ after.processed = scan.processed + 1
                        /\ after.errors = scan.errors
         ]_vars

\* C2 witness: a scan that found fragments has called addArticle for each of
\* them and counted none as processed: all were stored already.
C2_Witness ==
    \E p \in Slots, s \in SourceIds :
       /\ Scanning(p, s, "saving")
       /\ passes[p].scans[s].frags = <<>>
       /\ passes[p].scans[s].processed = 0
       /\ passes[p].scans[s].errors = 0
       /\ \E k \in 1..Len(rows) : rows[k].sourceId # s

----------------------------------------------------------------------------
(* C3 *)

\* C3: the is-due check is exact.  For every source a pass runs the check
\* for, extraction is attempted if and only if the source is active and has
\* either no lastScanned or now >= lastScanned + scanFrequency minutes, as
\* read by the pass; a source that is not due is not attempted and the
\* check reports no failure.
C3_IsDueExact ==
    [][\A p \in Slots : \A row \in Checked(p) :
          /\ Attempted(p, row) <=> (row.isActive /\ DueByRule(row, now))
          /\ ~(row.isActive /\ DueByRule(row, now)) =>
                passes'[p].scans[row.id].st \in {"idle", "skipped"}
          /\ begun' # begun => hasFailed' = hasFailed
      ]_vars

\* C3 witness: one pass has skipped a source that is not due and attempts a
\* source that was scanned before and is due again.
C3_Witness ==
    \E p \in Slots, s, d \in SourceIds :
       /\ Scanning(p, s, "skipped")
       /\ Scanning(p, d, "scraping")
       /\ sources[s].lastScanned # Null
       /\ now < sources[s].lastScanned + sources[s].scanFrequency * MsPerMinute
       /\ sources[d].lastScanned # Null
       /\ now >= sources[d].lastScanned + sources[d].scanFrequency * MsPerMinute

----------------------------------------------------------------------------
(* C4 *)

\* No source is twice on a pass's list.
TodoDistinct(p) ==
    \A i, j \in 1..Len(passes[p].todo) :
       i # j => passes[p].todo[i].id # passes[p].todo[j].id

\* C4: fast retry on failure.  The step in which the extraction of a source
\* throws leaves the sources table unchanged and takes the source out of the
\* pass without putting it back on the pass's list; within a pass a scan
\* starts only for a source taken off the list, on which no source is
\* twice and which never grows; and a later pass that runs the check for a
\* source whose extraction throws always, and finds it active, attempts it.
C4_FastRetry ==
    [][\A p \in Slots :
          /\ \A s \in SourceIds :
                FailureStep(p, s) =>
                   /\ sources' = sources
                   /\ passes'[p].scans[s].st = "idle"
                   /\ s \notin TodoIds(p)'
          /\ TodoDistinct(p)'
          /\ begun' = begun =>
                /\ TodoIds(p)' \subseteq TodoIds(p)
                /\ \A s \in SourceIds :
                      (passes'[p].scans[s].st = "scraping"
                          /\ passes[p].scans[s].st # "scraping")
                      => (s \in TodoIds(p) /\ s \notin TodoIds(p)')
          /\ \A row \in Checked(p) :
                (hasFailed /\ row.id = broken /\ row.isActive)
                   => Attempted(p, row)
      ]_vars

\* C4 witness: the source whose extraction throws has failed in the first
\* pass, its lastScanned is as it was before, and the second pass, begun
\* after that failure, attempts it again.
C4_Witness ==
    \E p \in Slots :
       /\ hasFailed
       /\ begun = 2
       /\ \A q \in Slots \ {p} : passes[q].status = "free"
       /\ Scanning(p, broken, "scraping")
       /\ sources[broken].lastScanned = 0
       /\ now > 0

----------------------------------------------------------------------------
(* C5, C6 *)

PassesScanning(s) == {p \in Slots : InFlight(p, s)}

\* C5: at most one scan of a source is in flight at any time.
C5_OneScanPerSource ==
    \A s \in SourceIds : Cardinality(PassesScanning(s)) <= 1

ScansInFlight == {ps \in Slots \X SourceIds : InFlight(ps[1], ps[2])}

\* C6: the number of scans in flight never exceeds the worker limit.
C6_BoundedConcurrency == Cardinality(ScansInFlight) <= WorkerLimit

----------------------------------------------------------------------------
(* C7, C8, C9 *)

\* C7: start() is idempotent.  A call on a running scheduler changes
\* nothing; a call on a stopped one arms the one cron task and schedules
\* one warm-up pass, and begins no pass itself; while the scheduler stays
\* running no step adds a cron task or a warm-up; so a running scheduler
\* has exactly one cron task armed.
C7_StartIdempotent ==
    [][/\ (api' = "start-noop" /\ api # "start-noop") =>
             /\ isRunning
             /\ UNCHANGED <<variant, now, ticked, isRunning, tasks, armed,
                            warmups, sources, broken, rows, passes, begun,
                            hasFailed>>
       /\ (api' = "started" /\ api # "started") =>
             /\ ~isRunning /\ isRunning'
             /\ armed' = 1 /\ tasks' = ScheduledTasks
             /\ warmups' = warmups + 1
             /\ passes' = passes /\ begun' = begun
       /\ (isRunning /\ isRunning') =>
             /\ armed' = armed /\ tasks' = tasks
             /\ warmups' <= warmups
       /\ isRunning' => armed' = 1
      ]_vars

\* C7 witness: start() was called on the running scheduler and returned:
\* one cron task is armed and one warm-up pass is scheduled.
C7_Witness ==
    /\ api = "start-noop"
    /\ isRunning
    /\ armed = 1
    /\ warmups = 1

\* C8: a scan pass begins only while the scheduler is running, that is,
\* none begins between a stop() and the next start().
C8_NoPassAfterStop == [][begun' # begun => isRunning]_vars

\* C9: stop() on a scheduler that is not running returns as a no-op: it
\* raises no error and leaves isRunning, the task map, the armed cron tasks
\* and the scheduled warm-ups, and all else, unchanged.
C9_StopWhenStopped ==
    [][(~isRunning /\ api' \in {"stopped", "stop-noop", "rejected"}
           /\ api' # api) =>
          /\ api' = "stop-noop"
          /\ UNCHANGED <<variant, now, ticked, isRunning, tasks, armed,
                         warmups, sources, broken, rows, passes, begun,
                         hasFailed>>
      ]_vars

\* C9 witness: stop() was called on a stopped scheduler whose warm-up is
\* still scheduled, and returned as a no-op.
C9_Witness ==
    /\ api = "stop-noop"
    /\ ~isRunning
    /\ tasks = {}
    /\ armed = 0
    /\ warmups = 1

----------------------------------------------------------------------------
(* C10 *)

\* An element is a qualifying candidate for a source type.
Qualifies(type, element) ==
    CASE type = "website" -> element.hasTitle /\ element.length > MinContentLength
      [] type = "twitter" -> element.length >= MinTweetLength
      [] type = "facebook" -> element.length >= MinPostLength

RECURSIVE QualifyingFrom(_, _, _)
QualifyingFrom(type, elements, i) ==
    IF i > Len(elements) THEN <<>>
    ELSE IF Qualifies(type, elements[i])
         THEN <<i>> \o QualifyingFrom(type, elements, i + 1)
         ELSE QualifyingFrom(type, elements, i + 1)

\* C10: for every source type, scrapeSource() returns at most maxResults
\* articles, and they are the first maxResults qualifying elements of the
\* page, in document order.
C10_FirstCapQualifying ==
    scrape.state = "returned" =>
       /\ Len(scraped) <= scrape.maxResults
       /\ scraped = Slice(QualifyingFrom(scrape.type, scrape.elements, 1),
                           scrape.maxResults)

----------------------------------------------------------------------------
(* C11 *)

\* C11: HTTP-to-browser fallback of website sources.  A failed HTTP fetch
\* is followed by the browser attempt (initializeBrowser); the call throws
\* only out of the browser attempt that follows a failed fetch; and a call
\* whose fetch failed returns only out of the browser attempt, with the
\* articles of the rendered page.
C11_BrowserFallback ==
    [][\A c \in Callers :
          (callers[c].type = "website" /\ callers'[c].type = "website"
              /\ callers'[c].pc # callers[c].pc) =>
             /\ (callers[c].pc = "http" /\ callers'[c].httpFailed)
                   => callers'[c].pc = "init"
             /\ callers'[c].pc = "threw"
                   => (callers[c].httpFailed
                          /\ callers[c].pc \in {"launching", "page"})
             /\ (callers'[c].pc = "returned" /\ callers[c].httpFailed)
                   => (callers[c].pc = "page"
                          /\ callers'[c].result = "rendered")
      ]_vars

\* C11 witness: a call for a website whose HTTP fetch failed has returned
\* the articles of the rendered page.
C11_Witness ==
    \E c \in Callers :
       /\ callers[c].type = "website"
       /\ callers[c].httpFailed
       /\ callers[c].pc = "returned"
       /\ callers[c].result = "rendered"

----------------------------------------------------------------------------
(* C12 *)

\* C12: the annotator loses no article: when summarizeArticles() is
\* through its list, it has produced one result per article handed to it.
C12_NoArticleLost ==
    toSummarize = <<>> => Len(summarized) = handed

----------------------------------------------------------------------------
(* C13 *)

\* addArticle() fails in this step, for fragment Head(frags) of the scan of
\* source s in pass p, with an error that is not a uniqueness violation:
\* the scan counts it among its errors, or ends with fragments left.
StorageErrorStep(p, s) ==
    /\ Scanning(p, s, "saving")
    /\ passes[p].scans[s].frags # <<>>
    /\ \/ /\ passes'[p].scans[s].st = "saving"
          /\ passes'[p].scans[s].errors = passes[p].scans[s].errors + 1
       \/ passes'[p].scans[s].st # "saving"

\* C13: per-fragment isolation.  A storage error other than a uniqueness
\* violation on a fragment leaves the scan in its loop with every later
\* fragment still to be attempted and nothing stored for the fragment; and
\* a scan, whatever errors it has met, leaves the loop only when no
\* fragment is left, writing lastScanned as it does.
C13_FragmentIsolation ==
    [][\A p \in Slots, s \in SourceIds :
          /\ StorageErrorStep(p, s) =>
                /\ passes'[p].scans[s].st = "saving"
                /\ passes'[p].scans[s].frags = Tail(passes[p].scans[s].frags)
                /\ rows' = rows
                /\ sources' = sources
          /\ ReturnStep(p, s) =>
                /\ passes[p].scans[s].frags = <<>>
                /\ sources'[s].lastScanned = now
      ]_vars

\* C13 witness: the first of the two fragments of a scan met a storage
\* error; nothing is stored, and the scan is in its loop with the second
\* fragment still to be attempted.
C13_Witness ==
    \E p \in Slots, s \in SourceIds :
        /\ Scanning(p, s, "saving")
        /\ scanLocals[p][s].articlesFound = 2
        /\ passes[p].scans[s].errors = 1
        /\ passes[p].scans[s].processed = 0
        /\ Len(passes[p].scans[s].frags) = 1
        /\ rows = <<>>

----------------------------------------------------------------------------
(* C14 *)

\* C14: the scan of a source that returns after its fragments were
\* attempted has set the source's lastScanned to the time at which the scan
\* started.
C14_LastScannedIsStart ==
    [][\A p \in Slots, s \in SourceIds :
          ReturnStep(p, s) =>
              sources'[s].lastScanned = scanLocals[p][s].startTime
      ]_vars

----------------------------------------------------------------------------
(* C15 *)

\* The call of scanSingleSource for source s in pass p returns in this step
\* after an attempt (the source was due).
EndStep(p, s) ==
    /\ passes[p].status = "running"
    /\ passes[p].scans[s].st \in {"scraping", "saving"}
    /\ ~(passes'[p].status = "running"
         /\ passes'[p].scans[s].st \in {"scraping", "saving"})

\* C15: one ScanOutcome per scan attempt, written at scan end.  A step in
\* which a scan ends, successful or failed, appends one row for its source
\* to scan_results; any other step, the skip of a source that is not due
\* included, leaves the table as it is.
C15_OneOutcomePerAttempt ==
    [][IF \E p \in Slots, s \in SourceIds : EndStep(p, s)
       THEN \E p \in Slots, s \in SourceIds :
               /\ EndStep(p, s)
               /\ Len(scanResults') = Len(scanResults) + 1
               /\ SubSeq(scanResults', 1, Len(scanResults)) = scanResults
               /\ scanResults'[Len(scanResults')].sourceId = s
       ELSE scanResults' = scanResults
      ]_vars

----------------------------------------------------------------------------
(* C16 *)

\* C16: the shared browser is launched at most once.  Whatever the
\* interleaving of the callers, at most one browser instance has been
\* created, and a caller that holds an instance holds the one in
\* ScrapingService.browser.
C16_LaunchedOnce ==
    /\ launches <= 1
    /\ \A c \in Callers : callers[c].got \in {NoBrowser, browser}

----------------------------------------------------------------------------
(* C17 *)

\* C17: on shutdown the browser is released.  Once the shutdown sequence
\* has run, no browser instance that was created remains open.
C17_ReleasedOnShutdown ==
    phase = "exited" => openBrowsers = {}

----------------------------------------------------------------------------
(* C18 *)

\* The ways of picking TopSentences positions out of n, in increasing order.
Picks(n) ==
    {pick \in [1..TopSentences -> 1..n] :
        \A i \in 1..(TopSentences - 1) : pick[i] < pick[i + 1]}

\* C18: the local extractive summary.  When the body splits into at most 3
\* sentences the summary is the body verbatim; otherwise it is made of 4
\* sentences none of which scores lower than a sentence left out, in
\* increasing order of their original position, with one space between
\* two of them and nothing else.
C18_ExtractiveSummary ==
    local # NotCalled =>
        LET sentences == SplitIntoSentences(content)
            n == Len(sentences)
        IN IF n <= 3
           THEN local.value = content
           ELSE \E pick \in Picks(n) :
                   /\ local.value = sentences[pick[1]] \o <<Space>> \o
                                    sentences[pick[2]] \o <<Space>> \o
                                    sentences[pick[3]] \o <<Space>> \o
                                    sentences[pick[4]]
                   /\ \A i \in 1..TopSentences, j \in 1..n :
                         (\A k \in 1..TopSentences : pick[k] # j) =>
                             ScoreSentence(sentences[pick[i]], pick[i] - 1)
                                 >= ScoreSentence(sentences[j], j - 1)

\* C18 witness: a body of five sentences whose last one scores highest and
\* whose fourth is left out: the summary is the first three and the last,
\* in that order.
C18_Witness ==
    /\ content = Render(<<Plain, Plain, Plain, Plain, News>>)
    /\ local # NotCalled
    /\ local.value = <<Plain, Space, Plain, Space, Plain, Space, News>>

----------------------------------------------------------------------------
(* C19 *)

\* The occurrences in the body of the words of a list, whatever their case
\* and whether they stand alone or inside a longer word.
Occurrences(list) ==
    Cardinality({<<i, k>> \in (1..Len(content)) \X (1..Len(list)) :
                    MatchesIn(ToLowerCase(content[i]), list[k]) = 1})

\* C19: the thresholds of the local sentiment.  With p the number of
\* positive-word occurrences and n the number of negative-word occurrences
\* in the body, the label is positive iff p - n > 2, negative iff
\* p - n < -2, and neutral otherwise.
C19_SentimentThresholds ==
    local # NotCalled =>
        LET p == Occurrences(PositiveWords)
            n == Occurrences(NegativeWords)
        IN /\ local.value = "positive" <=> p - n > 2
           /\ local.value = "negative" <=> p - n < -2
           /\ local.value = "neutral" <=> (p - n <= 2 /\ p - n >= -2)

\* C19 witness: a body with 4 positive-word occurrences (one in upper case,
\* one inside "winter") and 1 negative-word occurrence is labelled positive.
C19_Witness ==
    /\ content = <<"good", "Great", "bad", "winter", "good">>
    /\ local # NotCalled
    /\ local.value = "positive"

----------------------------------------------------------------------------
(* C20 *)

\* C20: the invariant of the stored sources.  After any sequence of
\* register and update calls with numeric cadence and result cap, every
\* stored source has a cadence of at least 5 minutes and a result cap
\* between 1 and 10.
C20_SourceInvariant ==
    \A i \in 1..Len(registered) :
        /\ registered[i].scanFrequency >= 5
        /\ registered[i].maxResults >= 1
        /\ registered[i].maxResults <= 10

----------------------------------------------------------------------------
(* C21 *)

\* C21: lastScanned is changed only by a scheduler scan of the source.  No
\* request to the sources routes, whatever its body, changes the
\* lastScanned of a stored source.
C21_RoutesKeepLastScanned ==
    [][\A i \in 1..Len(registered) :
          registered'[i].lastScanned = registered[i].lastScanned]_vars

----------------------------------------------------------------------------
(* C22 *)

\* C22: exactly-once across repeated scans.  A scan of content that was
\* scanned before and has not changed stores no article.
C22_RescanStoresNothing ==
    [][scrape.round >= 2 => rows' = rows]_vars

----------------------------------------------------------------------------
(* C28 *)

\* C28: within one scan, no two fragments the extractor returns carry the
\* same url, whatever the kind of the source.
C28_DistinctUrls ==
    scrape.state = "returned" =>
        LET urls == FragmentUrls(scrape.type, scrape.elements, scraped, now)
        IN \A i, j \in 1..Len(urls) : i # j => urls[i] # urls[j]

----------------------------------------------------------------------------
(* C29 *)

\* C29: the feed loops skip too-short posts without losing capacity.  When
\* the page of a twitter or facebook source holds at least maxResults posts
\* of the minimum length, scrapeSource() returns exactly maxResults
\* articles.
C29_FeedFillsCap ==
    (/\ scrape.state = "returned"
     /\ scrape.type \in {"twitter", "facebook"}
     /\ Len(QualifyingFrom(scrape.type, scrape.elements, 1)) >= scrape.maxResults)
        => Len(scraped) = scrape.maxResults


----------------------------------------------------------------------------
(* C23 *)

\* scrapeSource() returns no article for the scan in this step: the scan of
\* a source whose extraction does not throw ends straight from scraping.
SoftMissStep(p, s) ==
    /\ s # broken
    /\ Scanning(p, s, "scraping")
    /\ passes'[p].scans[s].st \notin {"scraping", "saving"}

\* C23: a soft miss is a completed scan.  When the extraction of a due
\* source returns zero fragments without an error, no error is recorded
\* and lastScanned of the source is written, so that the source is not
\* scanned again before its cadence has elapsed.
C23_SoftMissAdvances ==
    [][\A p \in Slots, s \in SourceIds :
          SoftMissStep(p, s) =>
              /\ hasFailed' = hasFailed
              /\ sources'[s].lastScanned = now]_vars


----------------------------------------------------------------------------
(* C27 *)

\* C27: the scheduler has two states.  After any calls of start() and
\* stop() it is running exactly when one cron task of the scan pass is
\* armed, and it is stopped exactly when no such task is armed nor held
\* in the task map.
C27_RunningIffOneTimer ==
    /\ armed \in {0, 1}
    /\ isRunning <=> armed = 1
    /\ ~isRunning <=> (armed = 0 /\ "main-scan" \notin tasks)

\* C27 witness: the scheduler was started, stopped and started again, and
\* runs with one cron task armed.
C27_Witness ==
    /\ api = "started"
    /\ warmups = 2
    /\ isRunning
    /\ armed = 1
    /\ "main-scan" \in tasks


----------------------------------------------------------------------------
(* C24 *)

\* The calls of summarizeArticle() made and not settled.
Annotating == {i \in 1..Len(batch) : batch[i].state = "pending"}

\* C24: within one scan the fragments are annotated one at a time and in
\* the order of the extraction: no two calls of summarizeArticle() are
\* under way together, and the summarized articles keep the order in which
\* they were handed over.
C24_SequentialInOrder ==
    /\ Cardinality(Annotating) <= 1
    /\ \A i, j \in 1..Len(summarized) :
          i < j => summarized[i].id < summarized[j].id


----------------------------------------------------------------------------
(* C25 *)

Running(p) == passes[p].status = "running"

\* C25: a tick terminates whatever its collaborators do.  No step of a
\* pass changes isRunning; a pass ends only when no source that is due is
\* left on its list, so that no error has cut it short; within a pass a
\* scan starts only for a source taken off the list, on which no source
\* is twice and which never grows, so that each source is attempted at
\* most once; and, each collaborator call returning or throwing, every
\* pass ends.
C25_TickTerminates ==
    /\ [][/\ (passes' # passes \/ begun' # begun) => isRunning' = isRunning
          /\ \A p \in Slots :
                /\ (Running(p) /\ ~Running(p)') =>
                       \A i \in 1..Len(passes[p].todo) :
                          ~IsDue(passes[p].todo[i], now)
                /\ (Running(p) /\ Running(p)') => TodoIds(p)' \subseteq TodoIds(p)
                /\ TodoDistinct(p)'
                /\ \A s \in SourceIds :
                      Entered(p, s) =>
                          /\ s \notin TodoIds(p)'
                          /\ Running(p) => s \in TodoIds(p)
         ]_vars
    /\ \A p \in Slots : Running(p) ~> ~Running(p)

\* C25 witness: a pass has ended in which the extraction of source 1 threw
\* and, after an article of source 2 was stored, updateSource threw.
C25_Witness ==
    /\ isRunning
    /\ begun = 1
    /\ hasFailed
    /\ broken = 1
    /\ \A p \in Slots : ~Running(p)
    /\ \E k \in 1..Len(rows) : rows[k].sourceId = 2
    /\ sources[2].lastScanned = Null


----------------------------------------------------------------------------
(* C26 *)

\* C26: deleting a source invalidates its scan under way.  No article is
\* inserted for a source whose row has been deleted, so that the sourceId
\* of every stored article names a row of the sources table.
C26_NoInsertAfterDelete ==
    [][Len(rows') > Len(rows) => rows'[Len(rows')].sourceId \notin deleted]_vars

----------------------------------------------------------------------------
(* C30 *)

\* The route POST /:id/test answers in this step.
TestStep == tested' # tested \/ (response' # response /\ response' \in {404, 500})

\* C30: the test scan has no persistence effects.  The step in which the
\* route answers inserts no article, writes no scan result and leaves the
\* sources table, lastScanned of every source included, and the passes of
\* the scheduler as they are.
C30_TestScanWritesNothing ==
    [][TestStep =>
          /\ rows' = rows
          /\ scanResults' = scanResults
          /\ sources' = sources
          /\ deleted' = deleted
          /\ passes' = passes]_vars

\* C30 witness: the test scan of source 2, which was never scanned, has
\* answered with two articles found, and nothing is stored.
C30_Witness ==
    /\ response = 200
    /\ tested = 2
    /\ rows = <<>>
    /\ scanResults = <<>>
    /\ deleted = {}
    /\ \A s \in SourceIds : sources[s].lastScanned = Null

=============================================================================
